---- MODULE Spec2Model ----
(***************************************************************************)
(* Model of gphoto_capture_control.py: the capture orchestration script    *)
(* for a Canon EOS 80D driven through the gphoto2 command line and a GPIO  *)
(* relay that powers the light.                                            *)
(*                                                                         *)
(* The script is sequential.  Its three nested routines are modelled with  *)
(* one position variable each: pc (the __main__ block and the two          *)
(* schedulers it calls), sc (singleCapture) and sp (setParameterByValue).  *)
(* A routine moves only while the routine it called is "idle".             *)
(*                                                                         *)
(* The environment (camera, driver, file system) is nondeterministic:      *)
(* a get-config may or may not print a "Current:" row, a set-config may    *)
(* or may not be applied by the firmware and may or may not print lines,   *)
(* the capture command takes one of CaptureDurations seconds and may or    *)
(* may not leave the image file.  The driver's stdout is modelled as a     *)
(* sequence of newline-terminated lines.  Time is in whole seconds.        *)
(***************************************************************************)
EXTENDS Integers, Sequences, FiniteSets, TLC

----------------------------------------------------------------------------
(* Bounds of the model *)

\* seconds one gphoto2 capture command (exposure + download) may take:
\* a short one that fits every interval, one that ends within the last
\* seconds of a one-minute interval and a long one that overruns it
ShortCapture == 15
LateCapture == 57
LongCapture == 65
CaptureDurations == {ShortCapture, LateCapture, LongCapture}
\* most stdout lines a set-config command prints
MaxSetOutputLines == 1

----------------------------------------------------------------------------
(* Program constants *)

RelaySettleDelay == 2
LightWarmupDelay == 3
DualPreLightBuffer == 2
DualGuardBuffer == 2
DarkTagCutoff == 5

\* contents of the reference tables 80D_aperture_dict and 80D_iso_dict
ApertureTable == {"2.8", "7.1"}
IsoTable == {"400", "Auto"}

Profiles == {"single", "series", "dual_series"}

\* every key in Python's sorted() order
AllKeysSorted ==
  << "aperture", "aperture_dark", "aperture_light", "comment", "duration",
     "interval", "iso", "iso_dark", "iso_light", "lights", "shutterspeed",
     "shutterspeed_dark", "shutterspeed_light", "subject" >>

AllKeys == { AllKeysSorted[i] : i \in 1..Len(AllKeysSorted) }

\* the keys the list of each profile names (lines 173, 178, 183), as sets
RequiredKeys(profile) ==
  CASE profile = "single" ->
         {"aperture", "iso", "lights", "shutterspeed", "subject"}
    [] profile = "series" ->
         {"aperture", "duration", "interval", "iso", "lights",
          "shutterspeed", "subject"}
    [] profile = "dual_series" ->
         {"aperture_dark", "aperture_light", "duration", "interval",
          "iso_dark", "iso_light", "shutterspeed_dark",
          "shutterspeed_light", "subject"}

----------------------------------------------------------------------------
(* Pure helpers *)

\* float(s) * 100 for the numeric strings the configurations use
Float100(s) ==
  CASE s = "1" -> 100
    [] s = "2" -> 200
    [] s = "10" -> 1000
    [] s = "5" -> 500
    [] s = "0.02" -> 2
    [] s = "0.05" -> 5

\* sorted(conf.keys())
SortedKeys(keys) == SelectSeq(AllKeysSorted, LAMBDA k : k \in keys)

\* the literal lists readConfFile compares sorted(conf.keys()) with
ExpectedKeyList(profile) ==
  CASE profile = "single" ->
         << "aperture", "iso", "lights", "shutterspeed", "subject" >>
    [] profile = "series" ->
         << "aperture", "duration", "interval", "iso", "shutterspeed",
            "subject", "lights" >>
    [] profile = "dual_series" ->
         << "aperture_dark", "aperture_light", "duration", "interval",
            "iso_dark", "iso_light", "shutterspeed_dark",
            "shutterspeed_light", "subject" >>

ExpectedKeyCount(profile) ==
  CASE profile = "single" -> 5
    [] profile = "series" -> 7
    [] profile = "dual_series" -> 9

\* readConfFile after parsing: what it prints and what it returns.
\* returned = the record is handed to the caller; the two printed flags are
\* the only reaction to a mismatch.
readConfFile(record, profile) ==
  [ conf |-> record,
    returned |-> TRUE,
    printedCount |->
      Cardinality(DOMAIN record) # ExpectedKeyCount(profile),
    printedMissing |->
      SortedKeys(DOMAIN record) # ExpectedKeyList(profile) ]

\* 'needle in row' for rows given as sequences of characters
Contains(row, needle) ==
  \E i \in 0..(Len(row) - Len(needle)) :
    \A j \in 1..Len(needle) : row[i + j] = needle[j]

BulbText == << "b", "u", "l", "b" >>
ThirtyText == << "3", "0" >>
\* a value that is not bulb and has 'bulb' in it
BulbThirtyText == BulbText \o ThirtyText

\* verifyBulbMode over the rows of `gphoto2 --get-config shutterspeed`
verifyBulbMode(rows) ==
  \E i \in 1..Len(rows) :
    /\ rows[i].label = "Current"
    /\ Contains(rows[i].text, BulbText)

CameraName ==
  << "C", "a", "n", "o", "n", " ", "E", "O", "S", " ", "8", "0", "D" >>

\* verifyCameraConnect over the rows of `gphoto2 --auto-detect`
verifyCameraConnect(rows) ==
  \E i \in 1..Len(rows) : Contains(rows[i], CameraName)

----------------------------------------------------------------------------
(* Inputs: the configuration file and the driver's outputs *)

DefaultValues ==
  [ k \in AllKeys |->
      CASE k = "aperture" -> "2.8"
        [] k = "aperture_dark" -> "2.8"
        [] k = "aperture_light" -> "2.8"
        [] k = "comment" -> "x"
        [] k = "duration" -> "0.05"
        [] k = "interval" -> "1"
        [] k = "iso" -> "400"
        [] k = "iso_dark" -> "400"
        [] k = "iso_light" -> "400"
        [] k = "lights" -> "off"
        [] k = "shutterspeed" -> "10"
        [] k = "shutterspeed_dark" -> "10"
        [] k = "shutterspeed_light" -> "2"
        [] k = "subject" -> "S" ]

\* the values a complete configuration is drawn from; "99" and "1" are in
\* neither reference table
ValueChoices ==
  { [ DefaultValues EXCEPT
        !["aperture"] = a, !["aperture_dark"] = a,
        !["iso"] = s, !["iso_light"] = s,
        !["lights"] = l,
        !["interval"] = iv, !["duration"] = du,
        !["shutterspeed"] = e, !["shutterspeed_light"] = e ] :
      a \in {"2.8", "99"}, s \in {"400", "1"}, l \in {"on", "off"},
      iv \in {"1", "2"}, du \in {"0.02", "0.05"}, e \in {"10", "5", "2"} }

Restrict(f, keys) == [ k \in keys |-> f[k] ]

\* parsed contents of <profile>.conf: the exact key set with every choice
\* of values, and with default values one key missing, one key extra, one
\* key replaced by another
ConfFiles(profile) ==
  LET req == RequiredKeys(profile) IN
    { Restrict(v, req) : v \in ValueChoices }
    \cup { Restrict(DefaultValues, req \ {k}) : k \in req }
    \cup { Restrict(DefaultValues, req \cup {"comment"}) }
    \cup { Restrict(DefaultValues, (req \ {"subject"}) \cup {"comment"}) }

EmptyConf == [ k \in {} |-> "" ]

\* rows of `gphoto2 --auto-detect`, as characters: the header alone, or
\* the header and the row of the camera (model, then port)
AutoDetectOutputs ==
  { << << "M", "o", "d", "e", "l" >> >>,
    << << "M", "o", "d", "e", "l" >>,
       CameraName \o << " ", "u", "s", "b" >> >> }

\* rows of `gphoto2 --get-config shutterspeed`; text is the row after its
\* label, as characters
ShutterOutputs ==
  { << >>,
    << [label |-> "Label", text |-> << "S" >>],
       [label |-> "Current", text |-> BulbText],
       [label |-> "Choice", text |-> BulbText] >>,
    << [label |-> "Label", text |-> << "S" >>],
       [label |-> "Current", text |-> ThirtyText],
       [label |-> "Choice", text |-> BulbText] >>,
    << [label |-> "Label", text |-> << "S" >>],
       [label |-> "Current", text |-> BulbThirtyText],
       [label |-> "Choice", text |-> BulbThirtyText] >> }

\* the value of the Current row of such an output, << >> when it has none
ShutterCurrent(rows) ==
  LET cur == { i \in 1..Len(rows) : rows[i].label = "Current" } IN
    IF cur = {} THEN << >>
    ELSE rows[CHOOSE i \in cur : \A j \in cur : i <= j].text

\* rows of `gphoto2 --get-config <setting>`: nothing (the driver failed), or
\* the current value v of the device followed by the choice c
GetConfigOutputs(v, c) ==
  { << >>,
    << [label |-> "Label", text |-> "L"],
       [label |-> "Current", text |-> v],
       [label |-> "Choice", text |-> c] >> }

\* stdout of `gphoto2 --set-config-value`: n newline-terminated lines
SetConfigOutputs == { [ j \in 1..n |-> "line" ] : n \in 0..MaxSetOutputLines }

\* output.split('\n') of newline-terminated lines: one trailing ''
SplitLines(lines) == Append(lines, "")

----------------------------------------------------------------------------
(* setParameterByValue, lines 215-287: its decisions *)

SupportedSetting(setting) == setting \in {"aperture", "iso"}

Dictionary(setting) ==
  IF setting = "aperture" THEN ApertureTable ELSE IsoTable

\* the allow-list check left out
AnyValueAccepted(setting, value) == TRUE

\* line 243: value in dictionary.values()
ValueAccepted(setting, value) == value \in Dictionary(setting)

\* the first read never short-circuiting
AlreadySetIgnored(rows, value) == FALSE

\* lines 253-258: some "Current:" row carries the requested value
AlreadySet(rows, value) ==
  \E i \in 1..Len(rows) :
    rows[i].label = "Current" /\ rows[i].text = value

\* lines 263-272: the set command printed nothing
SetAccepted(output) == Len(SplitLines(output)) = 1

\* the read-back matching the value in any row, whatever its label
ReadBackAnyRow(rows, value) ==
  \E i \in 1..Len(rows) : rows[i].text = value

\* lines 276-287: the first "Current:" row decides; none gives False
ReadBackVerified(rows, value) ==
  LET cur == { i \in 1..Len(rows) : rows[i].label = "Current" } IN
    /\ cur # {}
    /\ rows[CHOOSE i \in cur : \A j \in cur : i <= j].text = value

\* what a read reported, for the record of the call
Reported(rows) ==
  LET cur == { i \in 1..Len(rows) : rows[i].label = "Current" } IN
    IF cur = {} THEN "none"
    ELSE rows[CHOOSE i \in cur : \A j \in cur : i <= j].text

----------------------------------------------------------------------------
(* singleCapture, lines 289-359: its decisions *)

\* the cutoff taken as exclusive
TagAboveCutoff(exposure_time) ==
  IF Float100(exposure_time) > DarkTagCutoff * 100 THEN "_dark" ELSE "_light"

\* lines 311-314
Tag(exposure_time) ==
  IF Float100(exposure_time) >= DarkTagCutoff * 100 THEN "_dark" ELSE "_light"

\* line 315: the parts of image_name, in order
ImageName(subject, timestamp, exposure_time, aperture, iso) ==
  << subject, "_", timestamp, Tag(exposure_time), "_exp", exposure_time,
     "s_", "_f", aperture, "_iso", iso >>

\* time.sleep(t) raises ValueError for a negative t
SleepRaises(t) == t < 0

----------------------------------------------------------------------------
(* State *)

VARIABLES
  pc,            \* position in __main__ and in the scheduler it runs
  sc,            \* position in singleCapture
  sp,            \* position in setParameterByValue
  profile,       \* capture_profile
  confFile,      \* parsed contents of the configuration file
  conf,          \* conf as returned by readConfFile
  proceed,       \* the stop-check flag of __main__
  relay,         \* level last commanded on BCM pin 2
  now,           \* wall clock, seconds since launch
  interval,      \* seconds
  cycles,
  cycle,         \* loop variable i of the running scheduler
  callTime,      \* call_time of the running cycle
  stamp,         \* timestamp the scheduler hands to singleCapture
  scArgs,        \* arguments of the running singleCapture call
  imageName,
  scResult,      \* value singleCapture returned
  spArgs,        \* arguments of the running setParameterByValue call
  spResult,      \* value setParameterByValue returned
  devAperture,   \* aperture the camera is set to
  devIso,        \* ISO the camera is set to
  files,         \* image names present in the working directory
  \* history of the run, kept for the properties
  crashReason,   \* exception that ended the process, "none" if none
  verifyFailed,  \* verifyCameraConnect or verifyBulbMode returned False
  hw,            \* kinds of hardware command issued so far
  confOutcome,   \* what readConfFile printed and returned
  closeoutRan,
  lightFailed,   \* a light exposure of dualSeriesCapture returned False
  spTrace,       \* reads and writes of the running setParameterByValue call
  scTrace,       \* results and commands of the running singleCapture call
  given,         \* image names singleCapture has built in this run
  lightOnAt,     \* time of the last relay HIGH command, -1 if none
  darkFailed,    \* the dark exposure of the running cycle returned False
  starts,        \* call_time of every cycle the scheduler has started
  bulbSeen       \* what verifyBulbMode read and what it returned

vars ==
  << pc, sc, sp, profile, confFile, conf, proceed, relay, now, interval,
     cycles, cycle, callTime, stamp, scArgs, imageName, scResult, spArgs,
     spResult, devAperture, devIso, files, crashReason, verifyFailed, hw,
     confOutcome, closeoutRan, lightFailed, spTrace, scTrace, given,
     lightOnAt, darkFailed, starts, bulbSeen >>

mainVars == << pc, profile, confFile, conf, proceed, interval, cycles, cycle,
               callTime, stamp >>
histVars ==
  << crashReason, verifyFailed, confOutcome, closeoutRan, lightFailed >>
devVars == << devAperture, devIso >>
obsVars == << given, lightOnAt, darkFailed, starts, bulbSeen >>

NoArgs == [ exposure |-> "10", aperture |-> "2.8", iso |-> "400",
            timestamp |-> -1, lights |-> "off" ]
NoName == << >>
NoSpArgs == [ setting |-> "none", value |-> "none" ]
NoSpTrace == [ read1 |-> "unread", read2 |-> "unread", reads |-> 0,
               writes |-> 0, setLines |-> -1 ]
NoScTrace == [ aperture |-> "unset", iso |-> "unset", shutters |-> 0,
               writes |-> [ k \in {"aperture", "iso"} |-> 0 ],
               produced |-> "none" ]
NoBulbSeen == [ called |-> FALSE, current |-> << >>, result |-> FALSE ]
NoOutcome == [ checked |-> FALSE, returned |-> FALSE, printedCount |-> FALSE,
               printedMissing |-> FALSE, hwBefore |-> {} ]

Init ==
  /\ pc = "m_init" /\ sc = "idle" /\ sp = "idle"
  /\ profile \in Profiles
  /\ confFile \in ConfFiles(profile)
  /\ conf = EmptyConf
  /\ proceed = TRUE
  /\ relay = "unset"
  /\ now = 0
  /\ interval = 0 /\ cycles = 0 /\ cycle = 0 /\ callTime = 0 /\ stamp = 0
  /\ scArgs = NoArgs /\ imageName = NoName /\ scResult = FALSE
  /\ spArgs = NoSpArgs /\ spResult = FALSE
  /\ devAperture \in ApertureTable
  /\ devIso \in IsoTable
  /\ files = {}
  /\ crashReason = "none"
  /\ verifyFailed = FALSE
  /\ hw = {}
  /\ confOutcome = NoOutcome
  /\ closeoutRan = FALSE
  /\ lightFailed = FALSE
  /\ spTrace = NoSpTrace
  /\ scTrace = NoScTrace
  /\ given = {}
  /\ lightOnAt = -1
  /\ darkFailed = FALSE
  /\ starts = << >>
  /\ bulbSeen = NoBulbSeen

\* an uncaught exception ends the process where it is raised
Raise(reason) ==
  /\ pc' = "crashed"
  /\ crashReason' = reason

\* a call of singleCapture(logger, wait_time, exposure_time, aperture, iso,
\* subject_name, timestamp, lights); timestamp -1 stands for None
CallSingleCapture(exposure, aperture, iso, timestamp, lights) ==
  /\ sc' = "sc_begin"
  /\ scArgs' = [ exposure |-> exposure, aperture |-> aperture, iso |-> iso,
                 timestamp |-> timestamp, lights |-> lights ]
  /\ scTrace' = NoScTrace

HasKeys(keys) == keys \subseteq DOMAIN conf

----------------------------------------------------------------------------
(* __main__, lines 448-538 *)

\* the line set up with initial=GPIO.HIGH
InitialRelayLevelHigh == "HIGH"

\* level initRelayControl sets the line to (line 137)
InitialRelayLevel == "LOW"

\* lines 460-461; initRelayControl, lines 130-141
InitRelay ==
  /\ pc = "m_init"
  /\ relay' = InitialRelayLevel
  /\ hw' = hw \cup { IF InitialRelayLevel = "LOW" THEN "relay_low"
                     ELSE "relay_high" }
  /\ now' = now + RelaySettleDelay
  /\ proceed' = TRUE
  /\ pc' = "m_kill"
  /\ UNCHANGED << obsVars,
                  sc, sp, profile, confFile, conf, interval, cycles, cycle,
                  callTime, stamp, scArgs, imageName, scResult, spArgs,
                  spResult, devVars, files, histVars, spTrace, scTrace >>

\* lines 464-465; killMonitorProcess, lines 71-128
KillMonitor ==
  /\ pc = "m_kill"
  /\ hw' = IF proceed THEN hw \cup {"kill"} ELSE hw
  /\ pc' = "m_connect"
  /\ UNCHANGED << obsVars, sc, sp, profile, confFile, conf, proceed, relay, now,
                  interval, cycles, cycle, callTime, stamp, scArgs,
                  imageName, scResult, spArgs, spResult, devVars, files,
                  histVars, spTrace, scTrace >>

\* lines 468-469
VerifyConnect ==
  /\ pc = "m_connect"
  /\ \E rows \in AutoDetectOutputs :
       IF proceed
       THEN /\ proceed' = verifyCameraConnect(rows)
            /\ hw' = hw \cup {"autodetect"}
            /\ verifyFailed' = (verifyFailed \/ ~verifyCameraConnect(rows))
       ELSE UNCHANGED << proceed, hw, verifyFailed >>
  /\ pc' = "m_bulb"
  /\ UNCHANGED << obsVars,
                  sc, sp, profile, confFile, conf, relay, now, interval,
                  cycles, cycle, callTime, stamp, scArgs, imageName,
                  scResult, spArgs, spResult, devVars, files, crashReason,
                  confOutcome, closeoutRan, lightFailed, spTrace, scTrace >>

\* lines 470-471
VerifyBulb ==
  /\ pc = "m_bulb"
  /\ \E rows \in ShutterOutputs :
       IF proceed
       THEN /\ proceed' = verifyBulbMode(rows)
            /\ hw' = hw \cup {"get_shutterspeed"}
            /\ verifyFailed' = (verifyFailed \/ ~verifyBulbMode(rows))
            /\ bulbSeen' = [ called |-> TRUE,
                             current |-> ShutterCurrent(rows),
                             result |-> proceed' ]
       ELSE UNCHANGED << proceed, hw, verifyFailed, bulbSeen >>
  /\ pc' = "m_conf"
  /\ UNCHANGED << given, lightOnAt, darkFailed, starts,
                  sc, sp, profile, confFile, conf, relay, now, interval,
                  cycles, cycle, callTime, stamp, scArgs, imageName,
                  scResult, spArgs, spResult, devVars, files, crashReason,
                  confOutcome, closeoutRan, lightFailed, spTrace, scTrace >>

\* lines 474-478: conf = readConfFile(conf_filename, capture_profile)
ReadConf ==
  /\ pc = "m_conf"
  /\ LET r == readConfFile(confFile, profile) IN
       /\ conf' = r.conf
       /\ confOutcome' = [ checked |-> TRUE, returned |-> r.returned,
                           printedCount |-> r.printedCount,
                           printedMissing |-> r.printedMissing,
                           hwBefore |-> hw ]
  /\ pc' = "m_subject"
  /\ UNCHANGED << obsVars,
                  sc, sp, profile, confFile, proceed, relay, now, interval,
                  cycles, cycle, callTime, stamp, scArgs, imageName,
                  scResult, spArgs, spResult, devVars, files, crashReason,
                  verifyFailed, hw, closeoutRan, lightFailed, spTrace,
                  scTrace >>

\* line 479: subject_name = conf['subject']
ReadSubject ==
  /\ pc = "m_subject"
  /\ IF HasKeys({"subject"})
     THEN pc' = "m_dispatch" /\ UNCHANGED crashReason
     ELSE Raise("KeyError")
  /\ UNCHANGED << obsVars, sc, sp, profile, confFile, conf, proceed, relay, now,
                  interval, cycles, cycle, callTime, stamp, scArgs,
                  imageName, scResult, spArgs, spResult, devVars, files,
                  verifyFailed, hw, confOutcome, closeoutRan, lightFailed,
                  spTrace, scTrace >>

\* lines 490-493: the single profile calls singleCapture with timestamp None
DispatchSingle ==
  /\ pc = "m_dispatch" /\ profile = "single"
  /\ IF HasKeys({"shutterspeed", "aperture", "iso", "lights"})
     THEN /\ CallSingleCapture(conf["shutterspeed"], conf["aperture"],
                               conf["iso"], -1, conf["lights"])
          /\ pc' = "m_single_ret"
          /\ UNCHANGED crashReason
     ELSE /\ Raise("KeyError")
          /\ UNCHANGED << sc, scArgs, scTrace >>
  /\ UNCHANGED << obsVars,
                  sp, profile, confFile, conf, proceed, relay, now, interval,
                  cycles, cycle, callTime, stamp, imageName, scResult,
                  spArgs, spResult, devVars, files, verifyFailed, hw,
                  confOutcome, closeoutRan, lightFailed, spTrace >>

\* line 493 returns: the result is dropped
SingleReturn ==
  /\ pc = "m_single_ret" /\ sc = "sc_ret"
  /\ sc' = "idle"
  /\ pc' = "m_closeout"
  /\ UNCHANGED << obsVars,
                  sp, profile, confFile, conf, proceed, relay, now, interval,
                  cycles, cycle, callTime, stamp, scArgs, imageName,
                  scResult, spArgs, spResult, devVars, files, histVars, hw,
                  spTrace, scTrace >>

\* lines 499-503: interval in minutes and duration in hours become seconds,
\* cycles = int(duration / interval)
CycleCount(intervalText, durationText) ==
  ((Float100(durationText) * 3600) \div 100)
    \div ((Float100(intervalText) * 60) \div 100)

\* lines 495-510
PlanCycles ==
  /\ pc = "m_dispatch" /\ profile \in {"series", "dual_series"}
  /\ IF HasKeys({"interval", "duration"})
     THEN /\ interval' = (Float100(conf["interval"]) * 60) \div 100
          /\ cycles' = CycleCount(conf["interval"], conf["duration"])
          /\ pc' = "m_start"
          /\ UNCHANGED crashReason
     ELSE /\ Raise("KeyError")
          /\ UNCHANGED << interval, cycles >>
  /\ UNCHANGED << obsVars, sc, sp, profile, confFile, conf, proceed, relay, now,
                  cycle, callTime, stamp, scArgs, imageName, scResult,
                  spArgs, spResult, devVars, files, verifyFailed, hw,
                  confOutcome, closeoutRan, lightFailed, spTrace, scTrace >>

\* lines 512-517: seriesCapture is called
StartSeries ==
  /\ pc = "m_start" /\ profile = "series"
  /\ IF HasKeys({"shutterspeed", "aperture", "iso", "lights"})
     THEN /\ pc' = "series_loop"
          /\ cycle' = 0
          /\ UNCHANGED crashReason
     ELSE /\ Raise("KeyError")
          /\ UNCHANGED cycle
  /\ UNCHANGED << obsVars, sc, sp, profile, confFile, conf, proceed, relay, now,
                  interval, cycles, callTime, stamp, scArgs, imageName,
                  scResult, spArgs, spResult, devVars, files, verifyFailed,
                  hw, confOutcome, closeoutRan, lightFailed, spTrace, scTrace >>

\* lines 520-530: dualSeriesCapture is called
StartDual ==
  /\ pc = "m_start" /\ profile = "dual_series"
  /\ IF HasKeys({"shutterspeed_light", "shutterspeed_dark", "aperture_light",
                 "aperture_dark", "iso_light", "iso_dark"})
     THEN /\ pc' = "dual_loop"
          /\ cycle' = 0
          /\ UNCHANGED crashReason
     ELSE /\ Raise("KeyError")
          /\ UNCHANGED cycle
  /\ UNCHANGED << obsVars, sc, sp, profile, confFile, conf, proceed, relay, now,
                  interval, cycles, callTime, stamp, scArgs, imageName,
                  scResult, spArgs, spResult, devVars, files, verifyFailed,
                  hw, confOutcome, closeoutRan, lightFailed, spTrace, scTrace >>

\* the line left as it is at closeout
CloseoutRelayLevelKept == relay

\* line 443: the level runCloseoutOps commands
CloseoutRelayLevel == "LOW"

\* line 538; runCloseoutOps, lines 440-446
Closeout ==
  /\ pc = "m_closeout"
  /\ relay' = CloseoutRelayLevel
  /\ hw' = hw \cup {"relay_low"}
  /\ closeoutRan' = TRUE
  /\ pc' = "done"
  /\ UNCHANGED << obsVars,
                  sc, sp, profile, confFile, conf, proceed, now, interval,
                  cycles, cycle, callTime, stamp, scArgs, imageName,
                  scResult, spArgs, spResult, devVars, files, crashReason,
                  verifyFailed, confOutcome, lightFailed, spTrace, scTrace >>

----------------------------------------------------------------------------
(* seriesCapture, lines 361-389 *)

\* lines 368-379: the next cycle calls singleCapture, or the loop is over
SeriesCycle ==
  /\ pc = "series_loop" /\ sc = "idle"
  /\ IF cycle < cycles
     THEN /\ stamp' = now
          /\ callTime' = now
          /\ CallSingleCapture(conf["shutterspeed"], conf["aperture"],
                               conf["iso"], now, conf["lights"])
          /\ starts' = Append(starts, now)
          /\ pc' = "series_ret"
     ELSE /\ pc' = "m_closeout"
          /\ UNCHANGED << stamp, callTime, sc, scArgs, scTrace, starts >>
  /\ UNCHANGED << given, lightOnAt, darkFailed, bulbSeen,
                  sp, profile, confFile, conf, proceed, relay, now, interval,
                  cycles, cycle, imageName, scResult, spArgs, spResult,
                  devVars, files, histVars, hw, spTrace >>

\* the whole interval slept, whatever the exposure call took
SeriesSleepWholeInterval == interval

\* line 385
SeriesSleepInterval == interval - (now - callTime)

\* lines 380-387: the result is dropped; sleep the rest of the interval
SeriesSleep ==
  /\ pc = "series_ret" /\ sc = "sc_ret"
  /\ sc' = "idle"
  /\ IF SleepRaises(SeriesSleepInterval)
     THEN /\ Raise("ValueError")
          /\ UNCHANGED << now, cycle >>
     ELSE /\ now' = now + SeriesSleepInterval
          /\ cycle' = cycle + 1
          /\ pc' = "series_loop"
          /\ UNCHANGED crashReason
  /\ UNCHANGED << obsVars,
                  sp, profile, confFile, conf, proceed, relay, interval,
                  cycles, callTime, stamp, scArgs, imageName, scResult,
                  spArgs, spResult, devVars, files, verifyFailed, hw,
                  confOutcome, closeoutRan, lightFailed, spTrace, scTrace >>

----------------------------------------------------------------------------
(* dualSeriesCapture, lines 391-438 *)

\* the light left on for the dark exposure
DarkRelayLevelOn == "HIGH"

\* line 410: the level commanded before the dark exposure
DarkRelayLevel == "LOW"

\* lines 405-417: light off, then the dark exposure; or the loop is over
DualDark ==
  /\ pc = "dual_loop" /\ sc = "idle"
  /\ IF cycle < cycles
     THEN /\ relay' = DarkRelayLevel
          /\ hw' = hw \cup { IF DarkRelayLevel = "LOW" THEN "relay_low"
                             ELSE "relay_high" }
          /\ callTime' = now
          /\ stamp' = now
          /\ CallSingleCapture(conf["shutterspeed_dark"],
                               conf["aperture_dark"], conf["iso_dark"],
                               now, "off")
          /\ starts' = Append(starts, now)
          /\ pc' = "dual_dark_ret"
     ELSE /\ pc' = "m_closeout"
          /\ UNCHANGED << relay, hw, callTime, stamp, sc, scArgs, scTrace,
                          starts >>
  /\ UNCHANGED << given, lightOnAt, darkFailed, bulbSeen, sp, profile,
                  confFile, conf, proceed, now, interval,
                  cycles, cycle, imageName, scResult, spArgs, spResult,
                  devVars, files, histVars, spTrace >>

\* lines 425-427: the argument of time.sleep
DualSleepInterval == (interval - (now - callTime)) - DualPreLightBuffer

\* the loop left when the dark exposure failed, as it is for the light one
DualLightAbortingOnDark ==
  /\ pc = "dual_dark_ret" /\ sc = "sc_ret"
  /\ darkFailed' = ~scResult
  /\ IF ~scResult
     THEN /\ pc' = "m_closeout"
          /\ sc' = "idle"
          /\ UNCHANGED << relay, hw, lightOnAt, now, scArgs, scTrace,
                          crashReason >>
     ELSE /\ relay' = "HIGH"
          /\ hw' = hw \cup {"relay_high"}
          /\ lightOnAt' = now
          /\ IF SleepRaises(DualSleepInterval)
             THEN /\ Raise("ValueError")
                  /\ sc' = "idle"
                  /\ UNCHANGED << now, scArgs, scTrace >>
             ELSE /\ now' = now + DualSleepInterval
                  /\ CallSingleCapture(conf["shutterspeed_light"],
                                       conf["aperture_light"],
                                       conf["iso_light"], stamp, "off")
                  /\ pc' = "dual_light_ret"
                  /\ UNCHANGED crashReason
  /\ UNCHANGED << given, starts, bulbSeen, sp, profile, confFile, conf,
                  proceed, interval,
                  cycles, cycle, callTime, stamp, imageName, scResult,
                  spArgs, spResult, devVars, files, verifyFailed,
                  confOutcome, closeoutRan, lightFailed, spTrace >>

\* lines 418-429: light on, sleep to the end of the interval, then the
\* light exposure with the timestamp of the dark one
DualLight ==
  /\ pc = "dual_dark_ret" /\ sc = "sc_ret"
  /\ relay' = "HIGH"
  /\ hw' = hw \cup {"relay_high"}
  /\ lightOnAt' = now
  /\ darkFailed' = ~scResult
  /\ IF SleepRaises(DualSleepInterval)
     THEN /\ Raise("ValueError")
          /\ sc' = "idle"
          /\ UNCHANGED << now, scArgs, scTrace >>
     ELSE /\ now' = now + DualSleepInterval
          /\ CallSingleCapture(conf["shutterspeed_light"],
                               conf["aperture_light"], conf["iso_light"],
                               stamp, "off")
          /\ pc' = "dual_light_ret"
          /\ UNCHANGED crashReason
  /\ UNCHANGED << given, starts, bulbSeen, sp, profile, confFile, conf,
                  proceed, interval,
                  cycles, cycle, callTime, stamp, imageName, scResult,
                  spArgs, spResult, devVars, files, verifyFailed,
                  confOutcome, closeoutRan, lightFailed, spTrace >>

\* the loop going on whatever the light exposure returned
NeverAbortLoop(success) == FALSE

\* line 430: the loop is left when the light exposure failed
AbortLoop(success) == ~success

\* lines 430-436: return on a failed light exposure, else the guard sleep
DualNext ==
  /\ pc = "dual_light_ret" /\ sc = "sc_ret"
  /\ sc' = "idle"
  /\ lightFailed' = (lightFailed \/ ~scResult)
  /\ IF AbortLoop(scResult)
     THEN /\ pc' = "m_closeout"
          /\ UNCHANGED << now, cycle >>
     ELSE /\ now' = now + DualGuardBuffer
          /\ cycle' = cycle + 1
          /\ pc' = "dual_loop"
  /\ UNCHANGED << obsVars,
                  sp, profile, confFile, conf, proceed, relay, interval,
                  cycles, callTime, stamp, scArgs, imageName, scResult,
                  spArgs, spResult, devVars, files, crashReason,
                  verifyFailed, hw, confOutcome, closeoutRan, spTrace,
                  scTrace >>

----------------------------------------------------------------------------
(* singleCapture, lines 289-359 *)

CallSetParameter(setting, value) ==
  /\ sp' = "sp_validate"
  /\ spArgs' = [ setting |-> setting, value |-> value ]
  /\ spTrace' = NoSpTrace

\* lines 302-317: light on and warm-up when asked for, then the name
ScBegin ==
  /\ sc = "sc_begin"
  /\ IF scArgs.lights = "on"
     THEN /\ relay' = "HIGH"
          /\ hw' = hw \cup {"relay_high"}
          /\ lightOnAt' = now
          /\ now' = now + LightWarmupDelay
     ELSE UNCHANGED << relay, hw, now, lightOnAt >>
  /\ UNCHANGED << darkFailed, starts, bulbSeen >>
  /\ imageName' = ImageName(conf["subject"],
                            IF scArgs.timestamp = -1 THEN now'
                            ELSE scArgs.timestamp,
                            scArgs.exposure, scArgs.aperture, scArgs.iso)
  /\ given' = given \cup {imageName'}
  /\ sc' = "sc_aperture"
  /\ UNCHANGED << mainVars, sp, scArgs, scResult, spArgs, spResult, devVars,
                  files, histVars, spTrace, scTrace >>

\* line 321: setParameterByValue(logger, 'aperture', aperture) is called
ScProgramAperture ==
  /\ sc = "sc_aperture" /\ sp = "idle"
  /\ CallSetParameter("aperture", scArgs.aperture)
  /\ sc' = "sc_aperture_ret"
  /\ UNCHANGED << obsVars, mainVars, relay, now, scArgs, imageName, scResult,
                  spResult, devVars, files, histVars, hw, scTrace >>

\* the result of the programming call not looked at
ProgrammingFailedIgnored(result) == FALSE

\* lines 321 and 324: a result that is not True ends the exposure
ProgrammingFailed(result) == ~result

\* lines 321-323
ScApertureReturn ==
  /\ sc = "sc_aperture_ret" /\ sp = "sp_ret"
  /\ sp' = "idle"
  /\ scTrace' = [ scTrace EXCEPT
                    !.aperture = IF spResult THEN "verified" ELSE "failed" ]
  /\ IF ProgrammingFailed(spResult)
     THEN /\ scResult' = FALSE
          /\ sc' = "sc_ret"
     ELSE /\ sc' = "sc_iso"
          /\ UNCHANGED scResult
  /\ UNCHANGED << obsVars,
                  mainVars, relay, now, scArgs, imageName, spArgs, spResult,
                  devVars, files, histVars, hw, spTrace >>

\* line 324: setParameterByValue(logger, 'iso', iso) is called
ScProgramIso ==
  /\ sc = "sc_iso" /\ sp = "idle"
  /\ CallSetParameter("iso", scArgs.iso)
  /\ sc' = "sc_iso_ret"
  /\ UNCHANGED << obsVars, mainVars, relay, now, scArgs, imageName, scResult,
                  spResult, devVars, files, histVars, hw, scTrace >>

\* lines 324-326
ScIsoReturn ==
  /\ sc = "sc_iso_ret" /\ sp = "sp_ret"
  /\ sp' = "idle"
  /\ scTrace' = [ scTrace EXCEPT
                    !.iso = IF spResult THEN "verified" ELSE "failed" ]
  /\ IF ProgrammingFailed(spResult)
     THEN /\ scResult' = FALSE
          /\ sc' = "sc_ret"
     ELSE /\ sc' = "sc_shutter"
          /\ UNCHANGED scResult
  /\ UNCHANGED << obsVars,
                  mainVars, relay, now, scArgs, imageName, spArgs, spResult,
                  devVars, files, histVars, hw, spTrace >>

\* lines 330-339: the shutter-open / shutter-close / download command; it
\* takes d seconds and leaves the image file or not
ScShutter ==
  /\ sc = "sc_shutter"
  /\ \E d \in CaptureDurations, produced \in BOOLEAN :
       /\ now' = now + d
       /\ files' = IF produced THEN files \cup {imageName} ELSE files
       /\ scTrace' = [ scTrace EXCEPT
                         !.shutters = @ + 1,
                         !.produced = IF produced THEN "yes" ELSE "no" ]
  /\ hw' = hw \cup {"shutter"}
  /\ sc' = "sc_verify"
  /\ UNCHANGED << obsVars,
                  mainVars, sp, relay, scArgs, imageName, scResult, spArgs,
                  spResult, devVars, histVars, spTrace >>

\* the exposure reported as taken without the file being looked for
ScVerifyTrusting ==
  /\ sc = "sc_verify"
  /\ scResult' = TRUE
  /\ sc' = "sc_ret"
  /\ UNCHANGED << obsVars, mainVars, sp, relay, now, scArgs, imageName,
                  spArgs, spResult, devVars, files, histVars, hw, spTrace,
                  scTrace >>

\* the light switched off again once the exposure is over
ScVerifyLightOff ==
  /\ sc = "sc_verify"
  /\ scResult' = (imageName \in files)
  /\ sc' = "sc_ret"
  /\ relay' = IF scArgs.lights = "on" THEN "LOW" ELSE relay
  /\ hw' = IF scArgs.lights = "on" THEN hw \cup {"relay_low"} ELSE hw
  /\ UNCHANGED << obsVars, mainVars, sp, now, scArgs, imageName, spArgs,
                  spResult, devVars, files, histVars, spTrace, scTrace >>

\* lines 351-356: the image file is looked for in the working directory
ScVerify ==
  /\ sc = "sc_verify"
  /\ scResult' = (imageName \in files)
  /\ sc' = "sc_ret"
  /\ UNCHANGED << obsVars, mainVars, sp, relay, now, scArgs, imageName, spArgs,
                  spResult, devVars, files, histVars, hw, spTrace, scTrace >>

----------------------------------------------------------------------------
(* setParameterByValue, lines 215-287 *)

DeviceValue(setting) == IF setting = "aperture" THEN devAperture ELSE devIso

\* lines 230-246: the setting and the value are checked against the tables
SpValidate ==
  /\ sp = "sp_validate"
  /\ IF SupportedSetting(spArgs.setting)
        /\ ValueAccepted(spArgs.setting, spArgs.value)
     THEN /\ sp' = "sp_read1"
          /\ UNCHANGED spResult
     ELSE /\ spResult' = FALSE
          /\ sp' = "sp_ret"
  /\ UNCHANGED << obsVars,
                  mainVars, sc, relay, now, scArgs, imageName, scResult,
                  spArgs, devVars, files, histVars, hw, spTrace, scTrace >>

\* lines 251-258: the current value is read; True when it is the value
SpReadCurrent ==
  /\ sp = "sp_read1"
  /\ \E rows \in GetConfigOutputs(DeviceValue(spArgs.setting), spArgs.value) :
       /\ spTrace' = [ spTrace EXCEPT !.read1 = Reported(rows),
                                      !.reads = @ + 1 ]
       /\ IF AlreadySet(rows, spArgs.value)
          THEN spResult' = TRUE /\ sp' = "sp_ret"
          ELSE sp' = "sp_write" /\ UNCHANGED spResult
  /\ hw' = hw \cup {"get_param"}
  /\ UNCHANGED << obsVars,
                  mainVars, sc, relay, now, scArgs, imageName, scResult,
                  spArgs, devVars, files, histVars, scTrace >>

\* lines 261-272: the set command; the firmware applies the value or
\* silently keeps the old one, and the command prints lines or nothing
SpWrite ==
  /\ sp = "sp_write"
  /\ \E applied \in BOOLEAN, output \in SetConfigOutputs :
       /\ devAperture' = IF applied /\ spArgs.setting = "aperture"
                         THEN spArgs.value ELSE devAperture
       /\ devIso' = IF applied /\ spArgs.setting = "iso"
                    THEN spArgs.value ELSE devIso
       /\ spTrace' = [ spTrace EXCEPT !.writes = @ + 1,
                                      !.setLines = Len(output) ]
       /\ IF SetAccepted(output)
          THEN sp' = "sp_read2" /\ UNCHANGED spResult
          ELSE spResult' = FALSE /\ sp' = "sp_ret"
  /\ scTrace' = [ scTrace EXCEPT !.writes[spArgs.setting] = @ + 1 ]
  /\ hw' = hw \cup {"set_param"}
  /\ UNCHANGED << obsVars,
                  mainVars, sc, relay, now, scArgs, imageName, scResult,
                  spArgs, files, histVars >>

\* lines 275-287: the value is read back and compared
SpReadBack ==
  /\ sp = "sp_read2"
  /\ \E rows \in GetConfigOutputs(DeviceValue(spArgs.setting), spArgs.value) :
       /\ spTrace' = [ spTrace EXCEPT !.read2 = Reported(rows),
                                      !.reads = @ + 1 ]
       /\ spResult' = ReadBackVerified(rows, spArgs.value)
  /\ sp' = "sp_ret"
  /\ hw' = hw \cup {"get_param"}
  /\ UNCHANGED << obsVars,
                  mainVars, sc, relay, now, scArgs, imageName, scResult,
                  spArgs, devVars, files, histVars, scTrace >>

----------------------------------------------------------------------------
(* The program *)

Next ==
  \/ InitRelay
  \/ KillMonitor
  \/ VerifyConnect
  \/ VerifyBulb
  \/ ReadConf
  \/ ReadSubject
  \/ DispatchSingle
  \/ SingleReturn
  \/ PlanCycles
  \/ StartSeries
  \/ StartDual
  \/ SeriesCycle
  \/ SeriesSleep
  \/ DualDark
  \/ DualLight
  \/ DualNext
  \/ Closeout
  \/ ScBegin
  \/ ScProgramAperture
  \/ ScApertureReturn
  \/ ScProgramIso
  \/ ScIsoReturn
  \/ ScShutter
  \/ ScVerify
  \/ SpValidate
  \/ SpReadCurrent
  \/ SpWrite
  \/ SpReadBack

Spec == Init /\ [][Next]_vars

TypeOK ==
  /\ pc \in {"m_init", "m_kill", "m_connect", "m_bulb", "m_conf", "m_subject",
             "m_dispatch", "m_single_ret", "m_start", "series_loop",
             "series_ret", "dual_loop", "dual_dark_ret", "dual_light_ret",
             "m_closeout", "done", "crashed"}
  /\ sc \in {"idle", "sc_begin", "sc_aperture", "sc_aperture_ret", "sc_iso",
             "sc_iso_ret", "sc_shutter", "sc_verify", "sc_ret"}
  /\ sp \in {"idle", "sp_validate", "sp_read1", "sp_write", "sp_read2",
             "sp_ret"}
  /\ relay \in {"unset", "LOW", "HIGH"}
  /\ now \in Nat
  /\ cycle \in 0..cycles

----------------------------------------------------------------------------
(* Properties *)

\* C1: on every exit path after the relay was initialised (normal end,
\* dual-series abort, an error raised while a scheduler or an exposure
\* runs) closeout has run and the relay line is LOW.
C1_LightOffOnEveryExit ==
  (pc = "done" \/ (pc = "crashed" /\ crashReason = "ValueError"))
    => (closeoutRan /\ relay = "LOW")

\* C2: once verifyCameraConnect or verifyBulbMode has failed, no
\* setParameterByValue call, no shutter command and no scheduler cycle
\* is executed.
C2_VerificationGatesRun ==
  verifyFailed =>
    /\ sc = "idle" /\ sp = "idle"
    /\ pc \notin {"m_single_ret", "series_ret", "dual_dark_ret",
                  "dual_light_ret"}
    /\ hw \cap {"get_param", "set_param", "shutter"} = {}

\* C3: once a light exposure of dualSeriesCapture has returned failure the
\* scheduler does nothing more: no exposure, no cycle and no relay command;
\* only closeout follows.
C3_DualAbortStopsLoop ==
  [][ lightFailed' =>
        /\ sc' = "idle" /\ sp' = "idle"
        /\ pc' \in {"m_closeout", "done"}
        /\ cycle' = cycle
        /\ files' = files
        /\ (relay' # relay \/ hw' # hw) => pc = "m_closeout" ]_vars

C3_Witness ==
  /\ lightFailed /\ pc = "done"
  /\ cycle + 1 < cycles

\* C4: in seriesCapture a cycle that took longer than the interval raises
\* nothing and sleeps zero: the loop goes on to the next cycle at once.
C4_SeriesUnderrunSleepsZero ==
  [][ (pc = "series_ret" /\ sc = "sc_ret" /\ SeriesSleepInterval < 0)
        => (pc' = "series_loop" /\ cycle' = cycle + 1 /\ now' = now) ]_vars

\* C5: readConfFile hands the record to its caller if and only if the key
\* set of the record is exactly the required key set of the profile.
C5_ConfAcceptedIffExactKeys ==
  confOutcome.checked =>
    (confOutcome.returned <=> (DOMAIN confFile = RequiredKeys(profile)))

CaptureCommands == {"relay_high", "get_param", "set_param", "shutter"}
StartupCommands == {"relay_low", "kill", "autodetect", "get_shutterspeed"}

C7_NoWriteWhenAlreadySet ==
  (sp = "sp_ret" /\ spTrace.read1 = spArgs.value)
    => (spResult /\ spTrace.writes = 0 /\ spTrace.reads = 1)

C7_Witness ==
  /\ sp = "sp_ret" /\ spTrace.read1 = spArgs.value
  /\ spResult /\ spTrace.writes = 0
  /\ "set_param" \in hw

\* C8: for aperture or iso and a value outside the reference table,
\* setParameterByValue returns False and has issued neither a get-config
\* read nor a set-config write.
C8_UnlistedValueRejectedUntouched ==
  (/\ sp = "sp_ret"
   /\ spArgs.setting \in {"aperture", "iso"}
   /\ spArgs.value \notin Dictionary(spArgs.setting))
    => (~spResult /\ spTrace.reads = 0 /\ spTrace.writes = 0)

C8_Witness ==
  /\ sp = "sp_ret"
  /\ spArgs.setting = "iso" /\ spArgs.value = "1"
  /\ ~spResult

\* C9: setParameterByValue returns True only if a read made in that call
\* reported the requested value; after a write, only if the read-back
\* reported it and the set command printed nothing.
C9_VerifiedOnlyByRead ==
  (sp = "sp_ret" /\ spResult) =>
    /\ (spTrace.read1 = spArgs.value \/ spTrace.read2 = spArgs.value)
    /\ spTrace.writes > 0 =>
         (spTrace.read2 = spArgs.value /\ spTrace.setLines = 0)

C9_Witness ==
  /\ sp = "sp_ret" /\ spResult
  /\ spTrace.writes = 1 /\ spTrace.read2 = spArgs.value
  /\ spTrace.read1 # spArgs.value

\* C10: in singleCapture a failed aperture or ISO programming returns False
\* at once with no shutter command; the shutter command comes only after
\* aperture and then ISO were verified; ISO is not programmed after a
\* failed aperture.
C10_NoShutterAfterFailedProgramming ==
  /\ (sc \in {"sc_shutter", "sc_verify"} \/ scTrace.shutters > 0)
       => (scTrace.aperture = "verified" /\ scTrace.iso = "verified")
  /\ scTrace.aperture = "failed"
       => /\ sc \in {"sc_ret", "idle"} /\ ~scResult
          /\ scTrace.iso = "unset" /\ scTrace.shutters = 0
  /\ scTrace.iso = "failed"
       => /\ sc \in {"sc_ret", "idle"} /\ ~scResult
          /\ scTrace.aperture = "verified" /\ scTrace.shutters = 0
  /\ scTrace.iso # "unset" => scTrace.aperture = "verified"

C10_Witness ==
  /\ sc = "sc_ret" /\ ~scResult
  /\ scTrace.aperture = "verified" /\ scTrace.iso = "failed"
  /\ scTrace.shutters = 0

\* C11: in seriesCapture an exposure that returned False is followed by the
\* next cycle: every cycle of cycle_count calls singleCapture, whatever the
\* earlier cycles returned.
C11_SeriesGoesOnAfterFailure ==
  [][ (pc = "series_ret" /\ sc = "sc_ret" /\ ~scResult)
        => (pc' = "series_loop" /\ cycle' = cycle + 1) ]_vars

\* C12: after a dual-series run that aborted on a failed light exposure the
\* relay, HIGH at the abort, is set LOW by closeout and the run ends there.
C12_LightOffAfterDualAbort ==
  lightFailed =>
    /\ pc \in {"m_closeout", "done"}
    /\ pc = "m_closeout" => (relay = "HIGH" /\ ~closeoutRan)
    /\ pc = "done" => (relay = "LOW" /\ closeoutRan)

C12_Witness ==
  /\ lightFailed /\ pc = "done"
  /\ cycle = 1 /\ relay = "LOW"

C14_NamesNeverRepeat ==
  [][ sc = "sc_begin" => imageName' \notin given ]_vars

\* C15: once both parameters were verified and the shutter command has
\* completed, singleCapture returns True exactly when the image file of
\* that name is in the working directory.
C15_SuccessIffArtifactPresent ==
  (sc = "sc_ret" /\ scTrace.shutters > 0) =>
    /\ scTrace.aperture = "verified" /\ scTrace.iso = "verified"
    /\ scResult <=> (imageName \in files)

C15_Witness ==
  /\ sc = "sc_ret" /\ scTrace.shutters = 1
  /\ ~scResult /\ imageName \notin files

\* C16: in seriesCapture a cycle whose exposure call took e <= interval
\* seconds sleeps interval - e seconds, and the next call begins interval
\* seconds after this one.
C16_SeriesSleepsRestOfInterval ==
  [][ /\ (pc = "series_ret" /\ sc = "sc_ret" /\ now - callTime <= interval)
          => /\ now' - now = interval - (now - callTime)
             /\ pc' = "series_loop"
      /\ (pc = "series_loop" /\ sc = "idle" /\ cycle > 0 /\ cycle < cycles)
          => callTime' = callTime + interval ]_vars

C16_Witness ==
  /\ profile = "series" /\ pc = "series_ret"
  /\ cycle = 1 /\ callTime = RelaySettleDelay + 60
  /\ interval = 60

\* C17: a dual-series cycle goes light OFF, dark exposure, light ON, sleep,
\* light exposure; the relay is LOW from the call of the dark exposure to
\* its return and HIGH from the call of the light exposure to its return.
C17_DualCycleOrder ==
  [][ /\ pc' = "dual_dark_ret"
          => /\ relay' = "LOW"
             /\ scArgs'.exposure = conf["shutterspeed_dark"]
             /\ scArgs'.aperture = conf["aperture_dark"]
      /\ pc' = "dual_light_ret"
          => /\ relay' = "HIGH"
             /\ scArgs'.exposure = conf["shutterspeed_light"]
             /\ scArgs'.aperture = conf["aperture_light"]
      /\ (pc = "dual_loop" /\ pc' = "dual_dark_ret")
          => (sc' = "sc_begin" /\ now' = now)
      /\ (pc = "dual_dark_ret" /\ pc' = "dual_light_ret")
          => /\ sc = "sc_ret" /\ sc' = "sc_begin"
             /\ relay = "LOW"
             /\ now' = now + DualSleepInterval
      /\ (profile = "dual_series" /\ relay' # relay /\ pc' # "done")
          => sc \in {"idle", "sc_ret"} ]_vars

C17_Witness ==
  /\ pc = "dual_light_ret" /\ sc = "sc_verify"
  /\ relay = "HIGH" /\ cycle = 1

\* C18: whenever the shutter command is issued with the relay HIGH, at
\* least 3 s have passed since the last light-on command.
C18_WarmupBeforeShutter ==
  (sc = "sc_shutter" /\ relay = "HIGH")
    => now - lightOnAt >= LightWarmupDelay

\* C19: in dualSeriesCapture a dark exposure call longer than interval - 2
\* raises nothing: the sleep is zero and the light exposure is taken.
C19_DualUnderrunSleepsZero ==
  [][ (pc = "dual_dark_ret" /\ sc = "sc_ret" /\ DualSleepInterval < 0)
        => (pc' = "dual_light_ret" /\ sc' = "sc_begin" /\ now' = now) ]_vars

C21_CycleCountFixed ==
  /\ starts # << >> =>
       /\ cycles = CycleCount(conf["interval"], conf["duration"])
       /\ Len(starts) <= cycles
  /\ (/\ profile = "series"
      /\ \/ pc \in {"m_closeout", "done"}
         \/ (pc = "crashed" /\ crashReason = "ValueError"))
       => Len(starts) = cycles

C23_BulbOnlyWhenExactlyBulb ==
  bulbSeen.called => (bulbSeen.result <=> bulbSeen.current = BulbText)

\* C24: singleCapture never retries and hides no failure: one call issues
\* at most one set-config write for the aperture, at most one for the ISO
\* and at most one shutter command, and it returns False whenever a
\* parameter could not be programmed or the shutter command left no image.
C24_NoRetryEveryFailureReturned ==
  /\ scTrace.writes["aperture"] <= 1
  /\ scTrace.writes["iso"] <= 1
  /\ scTrace.shutters <= 1
  /\ (/\ sc = "sc_ret"
      /\ \/ scTrace.aperture = "failed"
         \/ scTrace.iso = "failed"
         \/ scTrace.produced = "no")
       => ~scResult

\* C25: singleCapture never commands the relay LOW. Called with lights
\* 'on' it sets the relay HIGH and the relay is HIGH when it returns, on
\* the early returns after a rejected aperture or ISO and after a missing
\* image as well; called with lights 'off' it leaves the relay as it is.
\* So in a series with lights on the relay, once HIGH in the first cycle,
\* is HIGH through every sleep between cycles, until closeout.
C25_CaptureNeverSwitchesLightOff ==
  [][ /\ sc \notin {"idle", "sc_ret"}
           => IF scArgs.lights = "on" THEN relay' = "HIGH"
              ELSE relay' = relay
      /\ (sc' = "sc_ret" /\ scArgs'.lights = "on") => relay' = "HIGH"
      /\ (/\ profile = "series"
          /\ pc' \in {"series_loop", "series_ret", "m_closeout", "crashed"}
          /\ starts' # << >> /\ sc' # "sc_begin"
          /\ conf["lights"] = "on")
           => relay' = "HIGH" ]_vars

C25_Witness ==
  /\ profile = "series" /\ pc = "series_loop" /\ cycle = 2
  /\ conf["lights"] = "on" /\ relay = "HIGH"
  /\ ~scResult /\ scTrace.iso = "failed"

====
